---- MODULE Spec2Model ----
(***************************************************************************)
(* A queue on top of a DynamoDB table: every record is a message, the      *)
(* global secondary index (queue_type, queue_add_timestamp) is the queue,  *)
(* and every mutation is a conditional UpdateItem on the record's version. *)
(* The client operations are modelled store call by store call, so that    *)
(* calls of several clients interleave between their store calls.          *)
(*                                                                         *)
(* Time is counted in whole units of the clock; a timestamp is the clock   *)
(* value at which it was taken (its RFC3339 text has a fixed width for     *)
(* whole units, so the order of the texts is the order of the instants).   *)
(***************************************************************************)
EXTENDS Integers, Sequences, FiniteSets, TLC

\* ------------------------------------------------------------- bounds

\* The clock runs from 0 to MaxTime, in units of one minute.
MaxTime == 2

\* A record is not mutated beyond this version.
MaxVersion == 3

\* SendMessage delays of 0..MaxDelay.
MaxDelay == 1

\* ChangeMessageVisibility sets timeouts of 0..MaxVisibilityTimeout.
MaxVisibilityTimeout == 1

\* The client's visibility timeout option, in minutes
\* (DefaultVisibilityTimeoutInMinutes, WithAWSVisibilityTimeout(1) in the tests).
DefaultVisibilityTimeout == 1

\* The ids of the queue, in the order in which a serial producer sends them.
SendOrder == <<"A-101", "A-202", "A-303">>

\* The ids of the queue the clients work on concurrently.
Ids == {"A-101", "A-202"}

\* The id the concurrent clients contend for.
RaceIds == {"A-101"}

\* The ids a caller may pass: those of the queue and the empty id.
InputIds == Ids \cup {""}

\* The ids a caller hands to ReplaceMessage.
ReplaceIds == RaceIds \cup {""}

Clients == {"c1", "c2"}

\* The client of the serial runs.
SerialClients == {"c1"}

Producer == "c1"

Consumer == "c2"

\* ------------------------------------------------------------ records

\* The empty timestamp (ReceivedAt = "").
NoTime == -1

QueueTypeStandard == "STANDARD"

QueueTypeDLQ == "DLQ"

StatusReady == "READY"

StatusProcessing == "PROCESSING"

\* A new message that ignores DelaySeconds.
NewMessageNoDelay(id, t, delay) ==
    [ID |-> id, QueueType |-> QueueTypeStandard, Status |-> StatusReady,
     ReceiveCount |-> 0, Version |-> 1,
     CreatedAt |-> t, UpdatedAt |-> t, SentAt |-> t, ReceivedAt |-> NoTime,
     QueueAddTimestamp |-> t, VisibilityTimeout |-> 0]

\* A new message: READY in the STANDARD queue at version 1.
NewMessage(id, t, delay) ==
    [ID |-> id, QueueType |-> QueueTypeStandard, Status |-> StatusReady,
     ReceiveCount |-> 0, Version |-> 1,
     CreatedAt |-> t, UpdatedAt |-> t, SentAt |-> t, ReceivedAt |-> NoTime,
     QueueAddTimestamp |-> t + delay, VisibilityTimeout |-> 0]

\* The attributes the receive's update expression SETs.
markAsProcessing(m, t, visibilityTimeout) ==
    [m EXCEPT !.Status = StatusProcessing,
              !.ReceivedAt = t,
              !.VisibilityTimeout = visibilityTimeout,
              !.UpdatedAt = t,
              !.ReceiveCount = m.ReceiveCount + 1]

markAsReady(m, t) ==
    [m EXCEPT !.Status = StatusReady,
              !.VisibilityTimeout = 0,
              !.UpdatedAt = t]

changeVisibility(m, t, visibilityTimeout) ==
    [m EXCEPT !.VisibilityTimeout = visibilityTimeout,
              !.UpdatedAt = t]

markAsMovedToDLQ(m, t) ==
    [m EXCEPT !.QueueType = QueueTypeDLQ,
              !.Status = StatusReady,
              !.VisibilityTimeout = 0,
              !.ReceiveCount = 0,
              !.UpdatedAt = t,
              !.SentAt = t,
              !.QueueAddTimestamp = t,
              !.ReceivedAt = NoTime]

markAsRestoredFromDLQ(m, t) ==
    [m EXCEPT !.QueueType = QueueTypeStandard,
              !.Status = StatusReady,
              !.QueueAddTimestamp = t,
              !.UpdatedAt = t,
              !.ReceiveCount = 0]

\* A record is selected (invisible) while it is PROCESSING and the timeout the
\* receiving client passes has not run out since it was received.
IsQueueSelected(m, t, visibilityTimeout) ==
    /\ m.Status = StatusProcessing
    /\ t < m.ReceivedAt + visibilityTimeout

\* ------------------------------------------------------------- store

VARIABLES
    table,      \* the DynamoDB table: the stored record of every present id
    now,        \* the clock
    useFIFO,    \* the clients' UseFIFO option
    pc,         \* per client: the store call its operation makes next
    loc,        \* per client: the local variables of its operation
    out,        \* what the step just taken returned, and to whom, when it ended an operation
    stale       \* per client: the record its operation read was deleted or replaced since

vars == <<table, now, useFIFO, pc, loc, out, stale>>

\* The ids of the records of one queue.
QueueIdsAll(tbl, queueType) ==
    DOMAIN tbl

QueueIds(tbl, queueType) ==
    {i \in DOMAIN tbl : tbl[i].QueueType = queueType}

\* The orders of a backward scan (ScanIndexForward false).
IndexOrdersBackward(tbl, S) ==
    {s \in [1..Cardinality(S) -> S] :
        /\ \A i, j \in 1..Cardinality(S) : i # j => s[i] # s[j]
        /\ \A i, j \in 1..Cardinality(S) :
              i < j => tbl[s[i]].QueueAddTimestamp >= tbl[s[j]].QueueAddTimestamp}

\* The orders in which a forward scan of the index may return a set of records:
\* ascending queue_add_timestamp, equal timestamps in any order.
IndexOrders(tbl, S) ==
    {s \in [1..Cardinality(S) -> S] :
        /\ \A i, j \in 1..Cardinality(S) : i # j => s[i] # s[j]
        /\ \A i, j \in 1..Cardinality(S) :
              i < j => tbl[s[i]].QueueAddTimestamp <= tbl[s[j]].QueueAddTimestamp}

\* Query on the queue index (KeyCondition queue_type = :qt, ScanIndexForward).
Query(tbl, queueType) ==
    IndexOrders(tbl, QueueIds(tbl, queueType))

\* The delete that deletes nothing.
DeleteItemNone(tbl, id) ==
    tbl

DeleteItem(tbl, id) ==
    [i \in DOMAIN tbl \ {id} |-> tbl[i]]

\* The put that stores the item one version on.
PutItemBumped(tbl, m) ==
    [i \in DOMAIN tbl \cup {m.ID} |->
        IF i = m.ID THEN [m EXCEPT !.Version = @ + 1] ELSE tbl[i]]

\* PutItem without a condition: the item replaces whatever its key holds.
PutItem(tbl, m) ==
    [i \in DOMAIN tbl \cup {m.ID} |-> IF i = m.ID THEN m ELSE tbl[i]]

\* The condition without the version: the record exists.
VersionIgnored(tbl, id, version) ==
    id \in DOMAIN tbl

\* The condition of every update: the record exists and has the observed version.
VersionMatches(tbl, id, version) ==
    /\ id \in DOMAIN tbl
    /\ tbl[id].Version = version

\* The update without ADD version 1.
ApplyUpdateKeepVersion(stored, sets) ==
    [f \in DOMAIN stored |-> IF f \in DOMAIN sets THEN sets[f] ELSE stored[f]]

\* The stored record with the attributes of `sets` overwritten and ADD version 1.
ApplyUpdate(stored, sets) ==
    [f \in DOMAIN stored |->
        IF f = "Version" THEN stored.Version + 1
        ELSE IF f \in DOMAIN sets THEN sets[f]
        ELSE stored[f]]

\* UpdateItem without its ConditionExpression.
updateDynamoDBItemUnconditional(tbl, id, cond, sets) ==
    IF id \in DOMAIN tbl
    THEN [tbl EXCEPT ![id] = ApplyUpdate(tbl[id], sets)]
    ELSE tbl

\* UpdateItem under `cond`: the table afterwards (unchanged when the condition fails).
updateDynamoDBItem(tbl, id, cond, sets) ==
    IF cond
    THEN [tbl EXCEPT ![id] = ApplyUpdate(tbl[id], sets)]
    ELSE tbl

\* The attributes of record m named in attrs.
Attrs(m, attrs) ==
    [f \in attrs |-> m[f]]

\* ------------------------------------------------------ client state

Idle == "idle"

\* The producer of a serial run has sent its last message.
Done == "done"

NoLoc == [id |-> "", version |-> 0, receiveCount |-> 0]

NoMsg == [ID |-> ""]

NoOut == [client |-> "", op |-> "", err |-> "", id |-> "", msg |-> NoMsg]

\* The operation of client c returns.
Finish(c, op, err, id, msg) ==
    /\ pc' = [pc EXCEPT ![c] = Idle]
    /\ loc' = [loc EXCEPT ![c] = NoLoc]
    /\ out' = [client |-> c, op |-> op, err |-> err, id |-> id, msg |-> msg]

\* The operation of client c goes on to its next store call.
Goto(c, label, l) ==
    /\ pc' = [pc EXCEPT ![c] = label]
    /\ loc' = [loc EXCEPT ![c] = l]
    /\ out' = NoOut

\* Operations in progress on record id learn that it was deleted or replaced.
Marked(id) ==
    [d \in Clients |-> stale[d] \/ (pc[d] \notin {Idle, Done} /\ loc[d].id = id)]

Cleared(st, c) ==
    [st EXCEPT ![c] = FALSE]

Init ==
    /\ table = [i \in {} |-> NoMsg]
    /\ now = 0
    /\ useFIFO \in BOOLEAN
    /\ pc = [c \in Clients |-> Idle]
    /\ loc = [c \in Clients |-> NoLoc]
    /\ out = NoOut
    /\ stale = [c \in Clients |-> FALSE]

Tick ==
    /\ now < MaxTime
    /\ now' = now + 1
    /\ out' = NoOut
    /\ UNCHANGED <<table, useFIFO, pc, loc, stale>>

\* ------------------------------------------------------- SendMessage

IDNotProvidedError == "IDNotProvidedError"

IDDuplicatedError == "IDDuplicatedError"

IDNotFoundError == "IDNotFoundError"

EmptyQueueError == "EmptyQueueError"

ConditionalCheckFailedError == "ConditionalCheckFailedError"

InvalidStateTransitionError == "InvalidStateTransitionError"

\* A nil pointer dereference: the call does not return.
NilDereference == "panic: nil pointer dereference"

\* The test that skips nothing: every id passes.
IDAlwaysProvided(id) ==
    TRUE

\* The validation at the head of every operation that takes an id.
IDProvided(id) ==
    id # ""

\* The Result an operation returns for record m.
Result(m) ==
    [ID |-> m.ID, Status |-> m.Status,
     LastUpdatedTimestamp |-> m.UpdatedAt, Version |-> m.Version]

\* The put without its condition.
AttributeAny(tbl, id) ==
    TRUE

\* The condition attribute_not_exists(id) of SendMessage's put.
AttributeNotExists(tbl, id) ==
    id \notin DOMAIN tbl

\* PutItem with the condition attribute_not_exists(id).
SendMessage(c, id, delay) ==
    /\ pc[c] = Idle
    /\ IF ~IDProvided(id)
       THEN /\ Finish(c, "SendMessage", IDNotProvidedError, id, NoMsg)
            /\ UNCHANGED table
       ELSE IF ~AttributeNotExists(table, id)
       THEN /\ Finish(c, "SendMessage", IDDuplicatedError, id, NoMsg)
            /\ UNCHANGED table
       ELSE /\ table' = PutItem(table, NewMessage(id, now, delay))
            /\ Finish(c, "SendMessage", "", id, NewMessage(id, now, delay))
    /\ UNCHANGED <<now, useFIFO, stale>>

\* --------------------------------------------------- GetMessage (Get)

\* The read that finds no item.
GetItemNone(tbl, id) ==
    NoMsg

\* GetItem by the key `id`: the stored item, or none (NoMsg stands for nil).
GetItem(tbl, id) ==
    IF id \in DOMAIN tbl THEN tbl[id] ELSE NoMsg

\* GetItem by primary key; a missing item is nil, not an error.
Get(c, id) ==
    /\ pc[c] = Idle
    /\ IF ~IDProvided(id)
       THEN Finish(c, "Get", IDNotProvidedError, id, NoMsg)
       ELSE Finish(c, "Get", "", id, GetItem(table, id))
    /\ UNCHANGED <<table, now, useFIFO, stale>>

\* ------------------------------------------------ ReceiveMessage (Peek)

Min(S) == CHOOSE x \in S : \A y \in S : x <= y

\* The loop without the test of IsQueueSelected: the first item of the page.
PeekSelectFirst(items, tbl, t) ==
    IF Len(items) = 0 THEN "" ELSE items[1]

\* The loop without its break: the last item of the page that is not selected.
PeekSelectLast(items, tbl, t) ==
    LET visible == {k \in 1..Len(items) :
                       ~IsQueueSelected(tbl[items[k]], t, DefaultVisibilityTimeout)}
    IN  IF visible = {} THEN ""
        ELSE items[CHOOSE k \in visible : \A l \in visible : l <= k]

\* The first item of the page that is not selected: the loop of Peek.
PeekSelect(items, tbl, t) ==
    LET visible == {k \in 1..Len(items) :
                       ~IsQueueSelected(tbl[items[k]], t, DefaultVisibilityTimeout)}
    IN  IF visible = {} THEN "" ELSE items[Min(visible)]

\* With UseFIFO the scan stops at the head: a selected head is not skipped.
FIFOSelect(items, tbl, t) ==
    IF Len(items) = 0 THEN ""
    ELSE IF IsQueueSelected(tbl[items[1]], t, DefaultVisibilityTimeout) THEN ""
    ELSE items[1]

SelectMessage(items, tbl, t, fifo) ==
    IF fifo THEN FIFOSelect(items, tbl, t) ELSE PeekSelect(items, tbl, t)

\* The update expression that re-stamps the record in the queue index too.
PeekSetsRestamp ==
    {"Status", "ReceivedAt", "VisibilityTimeout", "UpdatedAt", "ReceiveCount",
     "QueueAddTimestamp"}

\* The attributes the update expression of Peek SETs.
PeekSets ==
    {"Status", "ReceivedAt", "VisibilityTimeout", "UpdatedAt", "ReceiveCount"}

\* What Peek returns when its conditional update fails: the error of the store.
PeekUpdateError ==
    ConditionalCheckFailedError

\* Query of the queue index and choice of the record to receive.
PeekQuery(c) ==
    /\ pc[c] = Idle
    /\ \E items \in Query(table, QueueTypeStandard) :
         LET selectedID == SelectMessage(items, table, now, useFIFO)
         IN  IF selectedID = ""
             THEN Finish(c, "Peek", EmptyQueueError, "", NoMsg)
             ELSE Goto(c, "peek_get",
                       [id |-> selectedID,
                        version |-> table[selectedID].Version,
                        receiveCount |-> 0])
    /\ UNCHANGED <<table, now, useFIFO, stale>>

\* Get of the selected record; Peek calls MarkAsPeeked on what Get returned.
PeekGet(c) ==
    /\ pc[c] = "peek_get"
    /\ IF loc[c].id \in DOMAIN table
       THEN /\ Goto(c, "peek_update",
                    [loc[c] EXCEPT !.receiveCount = table[loc[c].id].ReceiveCount])
            /\ UNCHANGED stale
       ELSE /\ Finish(c, "Peek", NilDereference, loc[c].id, NoMsg)
            /\ stale' = Cleared(stale, c)
    /\ UNCHANGED <<table, now, useFIFO>>

\* The conditional update: version = selectedVersion.
PeekUpdate(c) ==
    /\ pc[c] = "peek_update"
    /\ LET id == loc[c].id
           cond == VersionMatches(table, id, loc[c].version)
           peeked == markAsProcessing(
                        [NewMessage(id, now, 0) EXCEPT !.ReceiveCount = loc[c].receiveCount],
                        now, DefaultVisibilityTimeout)
       IN  /\ cond => /\ table[id].Version < MaxVersion
                   /\ loc[c].receiveCount < MaxVersion - 1
           /\ table' = updateDynamoDBItem(table, id, cond, Attrs(peeked, PeekSets))
           /\ IF cond
              THEN /\ Goto(c, "peek_return", loc[c])
                   /\ UNCHANGED stale
              ELSE /\ Finish(c, "Peek", PeekUpdateError, id, NoMsg)
                   /\ stale' = Cleared(stale, c)
    /\ UNCHANGED <<now, useFIFO>>

\* The second Get, whose record Peek returns.
PeekReturn(c) ==
    /\ pc[c] = "peek_return"
    /\ Finish(c, "Peek", "", loc[c].id,
              IF loc[c].id \in DOMAIN table THEN table[loc[c].id] ELSE NoMsg)
    /\ stale' = Cleared(stale, c)
    /\ UNCHANGED <<table, now, useFIFO>>

\* ----------------------------------------------------- DeleteMessage

\* DeleteItem by primary key, without a condition.
Delete(c, id) ==
    /\ pc[c] = Idle
    /\ IF ~IDProvided(id)
       THEN /\ Finish(c, "Delete", IDNotProvidedError, id, NoMsg)
            /\ UNCHANGED <<table, stale>>
       ELSE /\ table' = DeleteItem(table, id)
            /\ Finish(c, "Delete", "", id, NoMsg)
            /\ stale' = IF id \in DOMAIN table THEN Marked(id) ELSE stale
    /\ UNCHANGED <<now, useFIFO>>

\* ------------------------------------- MoveMessageToDLQ (SendToDLQ)

\* The update expression without the status and the receive count.
SendToDLQSetsNoStatus ==
    {"QueueType", "VisibilityTimeout", "UpdatedAt", "SentAt",
     "QueueAddTimestamp", "ReceivedAt"}

SendToDLQSets ==
    {"QueueType", "Status", "VisibilityTimeout", "ReceiveCount", "UpdatedAt",
     "SentAt", "QueueAddTimestamp", "ReceivedAt"}

\* No record counts as being in the DLQ.
IsDLQNever(m) ==
    FALSE

IsDLQ(m) ==
    m.QueueType = QueueTypeDLQ

\* Get; a record already in the DLQ is returned as it is.
SendToDLQGet(c, id) ==
    /\ pc[c] = Idle
    /\ IF ~IDProvided(id)
       THEN Finish(c, "SendToDLQ", IDNotProvidedError, id, NoMsg)
       ELSE IF id \notin DOMAIN table
       THEN Finish(c, "SendToDLQ", IDNotFoundError, id, NoMsg)
       ELSE IF IsDLQ(table[id])
       THEN Finish(c, "SendToDLQ", "", id, Result(table[id]))
       ELSE Goto(c, "dlq_update",
                 [id |-> id, version |-> table[id].Version, receiveCount |-> 0])
    /\ UNCHANGED <<table, now, useFIFO, stale>>

\* The conditional update: version = observed and the record is still queued.
SendToDLQUpdate(c) ==
    /\ pc[c] = "dlq_update"
    /\ LET id == loc[c].id
           cond == /\ VersionMatches(table, id, loc[c].version)
                   /\ table[id].QueueType = QueueTypeStandard
           moved == markAsMovedToDLQ(NewMessage(id, now, 0), now)
       IN  /\ cond => table[id].Version < MaxVersion
           /\ table' = updateDynamoDBItem(table, id, cond, Attrs(moved, SendToDLQSets))
           /\ Finish(c, "SendToDLQ",
                     IF cond THEN "" ELSE ConditionalCheckFailedError, id,
                     IF cond THEN Result(table'[id]) ELSE NoMsg)
    /\ stale' = Cleared(stale, c)
    /\ UNCHANGED <<now, useFIFO>>

\* ----------------------------------------- RedriveMessage (Restore)

IsEnqueued(m) ==
    m.QueueType = QueueTypeStandard

\* The update expression without the queue_add_timestamp.
RestoreSetsNoTimestamp ==
    {"QueueType", "Status", "UpdatedAt", "ReceiveCount"}

RestoreSets ==
    {"QueueType", "Status", "QueueAddTimestamp", "UpdatedAt", "ReceiveCount"}

\* Get; a record already in the queue is returned as it is.
RestoreGet(c, id) ==
    /\ pc[c] = Idle
    /\ IF ~IDProvided(id)
       THEN Finish(c, "Restore", IDNotProvidedError, id, NoMsg)
       ELSE IF id \notin DOMAIN table
       THEN Finish(c, "Restore", IDNotFoundError, id, NoMsg)
       ELSE IF IsEnqueued(table[id])
       THEN Finish(c, "Restore", "", id, Result(table[id]))
       ELSE Goto(c, "restore_update",
                 [id |-> id, version |-> table[id].Version, receiveCount |-> 0])
    /\ UNCHANGED <<table, now, useFIFO, stale>>

RestoreUpdate(c) ==
    /\ pc[c] = "restore_update"
    /\ LET id == loc[c].id
           cond == VersionMatches(table, id, loc[c].version)
           restored == markAsRestoredFromDLQ(NewMessage(id, now, 0), now)
       IN  /\ cond => table[id].Version < MaxVersion
           /\ table' = updateDynamoDBItem(table, id, cond, Attrs(restored, RestoreSets))
           /\ Finish(c, "Restore",
                     IF cond THEN "" ELSE ConditionalCheckFailedError, id,
                     IF cond THEN Result(table'[id]) ELSE NoMsg)
    /\ stale' = Cleared(stale, c)
    /\ UNCHANGED <<now, useFIFO>>

\* --------------------------------------------- UpdateMessageAsVisible

\* The update expression without the status.
MarkAsReadySetsNoStatus ==
    {"VisibilityTimeout", "UpdatedAt"}

MarkAsReadySets ==
    {"Status", "VisibilityTimeout", "UpdatedAt"}

\* Get; markAsReady is valid from PROCESSING only.
UpdateMessageAsVisibleGet(c, id) ==
    /\ pc[c] = Idle
    /\ IF ~IDProvided(id)
       THEN Finish(c, "UpdateMessageAsVisible", IDNotProvidedError, id, NoMsg)
       ELSE IF id \notin DOMAIN table
       THEN Finish(c, "UpdateMessageAsVisible", IDNotFoundError, id, NoMsg)
       ELSE IF table[id].Status # StatusProcessing
       THEN Finish(c, "UpdateMessageAsVisible", InvalidStateTransitionError, id, NoMsg)
       ELSE Goto(c, "visible_update",
                 [id |-> id, version |-> table[id].Version, receiveCount |-> 0])
    /\ UNCHANGED <<table, now, useFIFO, stale>>

UpdateMessageAsVisibleUpdate(c) ==
    /\ pc[c] = "visible_update"
    /\ LET id == loc[c].id
           cond == VersionMatches(table, id, loc[c].version)
           ready == markAsReady(NewMessage(id, now, 0), now)
       IN  /\ cond => table[id].Version < MaxVersion
           /\ table' = updateDynamoDBItem(table, id, cond, Attrs(ready, MarkAsReadySets))
           /\ Finish(c, "UpdateMessageAsVisible",
                     IF cond THEN "" ELSE ConditionalCheckFailedError, id,
                     IF cond THEN Result(table'[id]) ELSE NoMsg)
    /\ stale' = Cleared(stale, c)
    /\ UNCHANGED <<now, useFIFO>>

\* -------------------------------------------- ChangeMessageVisibility

ChangeVisibilitySets ==
    {"VisibilityTimeout", "UpdatedAt"}

ChangeMessageVisibilityGet(c, id) ==
    /\ pc[c] = Idle
    /\ IF ~IDProvided(id)
       THEN Finish(c, "ChangeMessageVisibility", IDNotProvidedError, id, NoMsg)
       ELSE IF id \notin DOMAIN table
       THEN Finish(c, "ChangeMessageVisibility", IDNotFoundError, id, NoMsg)
       ELSE IF table[id].Status # StatusProcessing
       THEN Finish(c, "ChangeMessageVisibility", InvalidStateTransitionError, id, NoMsg)
       ELSE Goto(c, "visibility_update",
                 [id |-> id, version |-> table[id].Version, receiveCount |-> 0])
    /\ UNCHANGED <<table, now, useFIFO, stale>>

ChangeMessageVisibilityUpdate(c, visibilityTimeout) ==
    /\ pc[c] = "visibility_update"
    /\ LET id == loc[c].id
           cond == VersionMatches(table, id, loc[c].version)
           changed == changeVisibility(NewMessage(id, now, 0), now, visibilityTimeout)
       IN  /\ cond => table[id].Version < MaxVersion
           /\ table' = updateDynamoDBItem(table, id, cond, Attrs(changed, ChangeVisibilitySets))
           /\ Finish(c, "ChangeMessageVisibility",
                     IF cond THEN "" ELSE ConditionalCheckFailedError, id,
                     NoMsg)
    /\ stale' = Cleared(stale, c)
    /\ UNCHANGED <<now, useFIFO>>

\* ------------------------------------------------ ReplaceMessage (Put)

\* The messages a caller hands to ReplaceMessage: a legal record of any queue,
\* status and version, stamped with the clock.
ReplaceInputs(id, t) ==
    UNION {
        {[m EXCEPT !.Version = v] : v \in 1..MaxVersion} :
            m \in {NewMessage(id, t, 0),
                   markAsProcessing(NewMessage(id, t, 0), t, DefaultVisibilityTimeout),
                   markAsMovedToDLQ(NewMessage(id, t, 0), t)}}

\* Get of the record to replace.
PutGet(c, id) ==
    /\ pc[c] = Idle
    /\ IF ~IDProvided(id)
       THEN Finish(c, "Put", IDNotProvidedError, id, NoMsg)
       ELSE Goto(c, IF id \in DOMAIN table THEN "put_delete" ELSE "put_put",
                 [id |-> id, version |-> 0, receiveCount |-> 0])
    /\ UNCHANGED <<table, now, useFIFO, stale>>

\* DeleteItem of the record found.
PutDelete(c) ==
    /\ pc[c] = "put_delete"
    /\ table' = DeleteItem(table, loc[c].id)
    /\ Goto(c, "put_put", loc[c])
    /\ stale' = IF loc[c].id \in DOMAIN table
                THEN Cleared(Marked(loc[c].id), c) ELSE stale
    /\ UNCHANGED <<now, useFIFO>>

\* PutItem of the caller's record, without a condition.
PutPut(c) ==
    /\ pc[c] = "put_put"
    /\ \E m \in ReplaceInputs(loc[c].id, now) :
         /\ table' = PutItem(table, m)
         /\ Finish(c, "Put", "", loc[c].id, m)
    /\ stale' = Cleared(Marked(loc[c].id), c)
    /\ UNCHANGED <<now, useFIFO>>

\* ------------------------------------------------------------ Specs

\* The most IDs a list of the statistics holds.
StatsListLimit == 100

\* The first IDs of a scan, as the statistics list them.
First100(s) ==
    SubSeq(s, 1, IF Len(s) < StatsListLimit THEN Len(s) ELSE StatsListLimit)

\* The scanned records GetQueueStats counts as peeked (queue_selected).
SelectedFromQueue(tbl, s) ==
    SelectSeq(s, LAMBDA i : tbl[i].Status = StatusProcessing)

\* The statistics that take nothing off the total.
QueueStatsNoneStarted(tbl, s) ==
    [TotalRecordsInProcessing |-> Len(SelectedFromQueue(tbl, s)),
     TotalRecordsInQueue |-> Len(s),
     TotalRecordsNotStarted |-> Len(s),
     First100IDsInQueue |-> First100(s),
     First100SelectedIDsInQueue |-> First100(SelectedFromQueue(tbl, s))]

\* What GetQueueStats aggregates over the scan s of the queue index.
QueueStats(tbl, s) ==
    [TotalRecordsInProcessing |-> Len(SelectedFromQueue(tbl, s)),
     TotalRecordsInQueue |-> Len(s),
     TotalRecordsNotStarted |-> Len(s) - Len(SelectedFromQueue(tbl, s)),
     First100IDsInQueue |-> First100(s),
     First100SelectedIDsInQueue |-> First100(SelectedFromQueue(tbl, s))]

\* GetQueueStats: one forward scan of the STANDARD queue, no write.
GetQueueStats(c) ==
    /\ pc[c] = Idle
    /\ \E s \in Query(table, QueueTypeStandard) :
         Finish(c, "GetQueueStats", "", "", QueueStats(table, s))
    /\ UNCHANGED <<table, now, useFIFO, stale>>

\* The statistics that list no ID.
DLQStatsNoIDs(s) ==
    [First100IDsInQueue |-> <<>>,
     TotalRecordsInDLQ |-> Len(s)]

\* What GetDLQStats aggregates over the scan s of the DLQ index.
DLQStats(s) ==
    [First100IDsInQueue |-> First100(s),
     TotalRecordsInDLQ |-> Len(s)]

\* GetDLQStats: one forward scan of the DLQ, no write.
GetDLQStats(c) ==
    /\ pc[c] = Idle
    /\ \E s \in Query(table, QueueTypeDLQ) :
         Finish(c, "GetDLQStats", "", "", DLQStats(s))
    /\ UNCHANGED <<table, now, useFIFO, stale>>

\* Every operation that writes, by clients that interleave between their store
\* calls.
Next ==
    \/ Tick
    \/ \E c \in Clients :
         \/ \E id \in RaceIds, delay \in 0..MaxDelay : SendMessage(c, id, delay)
         \/ PeekQuery(c)
         \/ PeekGet(c)
         \/ PeekUpdate(c)
         \/ PeekReturn(c)
         \/ \E id \in RaceIds : Delete(c, id)
         \/ \E id \in RaceIds : SendToDLQGet(c, id)
         \/ SendToDLQUpdate(c)
         \/ \E id \in RaceIds : RestoreGet(c, id)
         \/ RestoreUpdate(c)
         \/ \E id \in RaceIds : UpdateMessageAsVisibleGet(c, id)
         \/ UpdateMessageAsVisibleUpdate(c)
         \/ \E id \in RaceIds : ChangeMessageVisibilityGet(c, id)
         \/ \E vt \in 0..MaxVisibilityTimeout : ChangeMessageVisibilityUpdate(c, vt)
         \/ \E id \in RaceIds : PutGet(c, id)
         \/ PutDelete(c)
         \/ PutPut(c)

Spec == Init /\ [][Next]_vars

\* Producers and consumers of a queue of several messages.
NextQueue ==
    \/ Tick
    \/ \E c \in Clients :
         \/ \E id \in Ids, delay \in 0..MaxDelay : SendMessage(c, id, delay)
         \/ PeekQuery(c)
         \/ PeekGet(c)
         \/ PeekUpdate(c)
         \/ PeekReturn(c)
         \/ \E id \in Ids : Delete(c, id)

SpecQueue == Init /\ [][NextQueue]_vars

\* Every operation on a queue of several messages, by one client: each
\* operation runs to its end before the next one starts.
NextSerial ==
    \/ Tick
    \/ \E c \in SerialClients :
         \/ \E id \in Ids, delay \in 0..MaxDelay : SendMessage(c, id, delay)
         \/ PeekQuery(c)
         \/ PeekGet(c)
         \/ PeekUpdate(c)
         \/ PeekReturn(c)
         \/ \E id \in Ids : Delete(c, id)
         \/ \E id \in Ids : SendToDLQGet(c, id)
         \/ SendToDLQUpdate(c)
         \/ \E id \in Ids : RestoreGet(c, id)
         \/ RestoreUpdate(c)
         \/ \E id \in Ids : UpdateMessageAsVisibleGet(c, id)
         \/ UpdateMessageAsVisibleUpdate(c)
         \/ \E id \in Ids : ChangeMessageVisibilityGet(c, id)
         \/ \E vt \in 0..MaxVisibilityTimeout : ChangeMessageVisibilityUpdate(c, vt)
         \/ \E id \in Ids : PutGet(c, id)
         \/ PutDelete(c)
         \/ PutPut(c)

SpecSerial == Init /\ [][NextSerial]_vars

\* The contract of each operation: one client calls the operations one after
\* the other with any id a caller may pass.
NextContract ==
    \/ Tick
    \/ \E c \in SerialClients :
         \/ \E id \in InputIds, delay \in 0..MaxDelay : SendMessage(c, id, delay)
         \/ PeekQuery(c)
         \/ PeekGet(c)
         \/ PeekUpdate(c)
         \/ PeekReturn(c)
         \/ \E id \in InputIds : Delete(c, id)
         \/ \E id \in InputIds : SendToDLQGet(c, id)
         \/ SendToDLQUpdate(c)
         \/ \E id \in InputIds : RestoreGet(c, id)
         \/ RestoreUpdate(c)
         \/ \E id \in InputIds : UpdateMessageAsVisibleGet(c, id)
         \/ UpdateMessageAsVisibleUpdate(c)
         \/ \E id \in ReplaceIds : PutGet(c, id)
         \/ PutDelete(c)
         \/ PutPut(c)
         \/ \E id \in InputIds : Get(c, id)
         \/ GetQueueStats(c)
         \/ GetDLQStats(c)

SpecContract == Init /\ [][NextContract]_vars

\* The serial run of the FIFO test: the producer sends the ids of SendOrder one
\* after the other; when it has stopped, the consumer alternates receive and
\* delete of what it received.
Unsent == {k \in 1..Len(SendOrder) : SendOrder[k] \notin DOMAIN table}

Received == {id \in DOMAIN table : table[id].Status = StatusProcessing}

DrainSend(delay) ==
    /\ Unsent # {}
    /\ SendMessage(Producer, SendOrder[Min(Unsent)], delay)

DrainStop ==
    /\ pc[Producer] = Idle
    /\ pc' = [pc EXCEPT ![Producer] = Done]
    /\ out' = NoOut
    /\ UNCHANGED <<table, now, useFIFO, loc, stale>>

DrainReceive ==
    /\ pc[Producer] = Done
    /\ Received = {}
    /\ PeekQuery(Consumer)

DrainDelete ==
    /\ pc[Producer] = Done
    /\ \E id \in Received : Delete(Consumer, id)

NextDrain ==
    \/ Tick
    \/ \E delay \in 0..MaxDelay : DrainSend(delay)
    \/ DrainStop
    \/ DrainReceive
    \/ PeekGet(Consumer)
    \/ PeekUpdate(Consumer)
    \/ PeekReturn(Consumer)
    \/ DrainDelete

SpecDrain == Init /\ [][NextDrain]_vars

\* ------------------------------------------------------------ claims

\* The receive of client c is between its Query and its conditional update.
Observing(c) == pc[c] \in {"peek_get", "peek_update"}

\* The step is the successful conditional update of the receive of client c.
Claims(c) == pc[c] = "peek_update" /\ pc'[c] = "peek_return"

\* The step is the Query of a receive of client c.
Queries(c) ==
    /\ pc[c] = Idle
    /\ \/ pc'[c] = "peek_get"
       \/ out'.client = c /\ out'.op = "Peek"

\* The STANDARD records a receive at time t does not see.
InFlight(tbl, t) ==
    {i \in QueueIds(tbl, QueueTypeStandard) :
        IsQueueSelected(tbl[i], t, DefaultVisibilityTimeout)}

C2_NoReceiptInsideWindow ==
    [][\A c \in Clients :
          Claims(c) =>
              ~IsQueueSelected(table[loc[c].id], now, DefaultVisibilityTimeout)]_vars

\* C3: every record has Version >= 1, and a step that changes a record which
\* exists before and after it adds exactly 1 to its Version, unless the step
\* is the put of ReplaceMessage, which writes the caller's version.
C3_VersionStepsByOne ==
    /\ [](\A id \in DOMAIN table : table[id].Version >= 1)
    /\ [][\A id \in DOMAIN table \cap DOMAIN table' :
              table'[id] # table[id] =>
                  \/ table'[id].Version = table[id].Version + 1
                  \/ \E c \in Clients :
                        pc[c] = "put_put" /\ pc'[c] = Idle /\ loc[c].id = id]_vars

\* C3 as stated: the Version of a record never decreases while it exists.
C3_VersionNeverDecreases ==
    [][\A id \in DOMAIN table \cap DOMAIN table' :
          table'[id].Version >= table[id].Version]_vars

\* A record received twice since it was sent: two mutations, Version 1 + 2.
C3_Witness ==
    \E id \in DOMAIN table :
        /\ table[id].Version = 3
        /\ table[id].ReceiveCount = 2
        /\ table[id].UpdatedAt > table[id].CreatedAt

\* C4: every record of the DLQ is READY and has ReceiveCount 0.
C4_DLQRecordsAreReady ==
    \A id \in DOMAIN table :
        table[id].QueueType = QueueTypeDLQ =>
            /\ table[id].Status = StatusReady
            /\ table[id].ReceiveCount = 0

\* The STANDARD records a receive at time t sees.
Visible(tbl, t) ==
    QueueIds(tbl, QueueTypeStandard) \ InFlight(tbl, t)

\* With one client, the receive that chose a record goes through: its Get
\* finds the record and its conditional update finds the observed version.
ReceiveGoesThrough(c) ==
    /\ pc[c] = "peek_get" => loc[c].id \in DOMAIN table
    /\ pc[c] = "peek_update" => VersionMatches(table, loc[c].id, loc[c].version)
    /\ pc[c] = "peek_return" => /\ loc[c].id \in DOMAIN table
                                /\ table[loc[c].id].Status = StatusProcessing

\* Record id is the one record of the STANDARD queue, PROCESSING with the
\* client's visibility timeout.
OnlyProcessing(id) ==
    /\ QueueIds(table, QueueTypeStandard) = {id}
    /\ table[id].Status = StatusProcessing
    /\ table[id].VisibilityTimeout = DefaultVisibilityTimeout

\* C5: when the only STANDARD record is PROCESSING, received at t with
\* visibility timeout D, a receive before t + D returns EmptyQueueError and
\* leaves the table as it is, and a receive after t + D chooses that record
\* at its stored version and goes through, nothing else having touched it.
C5_LazyVisibilityRecovery ==
    /\ [][\A c \in SerialClients, id \in Ids :
              (OnlyProcessing(id) /\ Queries(c)) =>
                  /\ now < table[id].ReceivedAt + table[id].VisibilityTimeout =>
                        /\ out'.err = EmptyQueueError
                        /\ pc'[c] = Idle
                        /\ table' = table
                  /\ now > table[id].ReceivedAt + table[id].VisibilityTimeout =>
                        /\ pc'[c] = "peek_get"
                        /\ loc'[c].id = id
                        /\ loc'[c].version = table[id].Version]_vars
    /\ [][\A c \in SerialClients :
              (Claims(c) /\ OnlyProcessing(loc[c].id)) =>
                  /\ table'[loc[c].id].ReceivedAt = now
                  /\ table'[loc[c].id].ReceiveCount = table[loc[c].id].ReceiveCount + 1]_vars
    /\ [](\A c \in SerialClients : ReceiveGoesThrough(c))

\* The only STANDARD record was received, its window ran out untouched, and a
\* second receive has just returned it.
C5_Witness ==
    \E id \in Ids :
        /\ QueueIds(table, QueueTypeStandard) = {id}
        /\ out.op = "Peek"
        /\ out.err = ""
        /\ out.id = id
        /\ table[id].Version = 3
        /\ table[id].ReceiveCount = 2
        /\ table[id].ReceivedAt > table[id].SentAt
        /\ table[id].CreatedAt = table[id].SentAt

\* C6: in the serial run with UseFIFO, every successful receive returns a
\* record whose QueueAddTimestamp is the smallest of the records left (equal
\* timestamps in either order), a receive fails only with EmptyQueueError, and
\* it returns EmptyQueueError exactly when no record is left.
C6_DrainInTimestampOrder ==
    (pc[Producer] = Done /\ useFIFO /\ out.op = "Peek") =>
        /\ out.err \in {"", EmptyQueueError}
        /\ out.err = EmptyQueueError <=> DOMAIN table = {}
        /\ out.err = "" =>
              /\ out.id \in DOMAIN table
              /\ \A j \in DOMAIN table :
                    table[out.id].QueueAddTimestamp <= table[j].QueueAddTimestamp

\* C6 as stated: every successful receive returns the record sent first of
\* the records left (granting records of one timestamp either order).
C6_DrainInSendOrder ==
    (pc[Producer] = Done /\ useFIFO /\ out.op = "Peek" /\ out.err = "") =>
        /\ out.id \in DOMAIN table
        /\ LET first == SendOrder[Min({k \in 1..Len(SendOrder) :
                                          SendOrder[k] \in DOMAIN table})]
           IN  \/ out.id = first
               \/ table[out.id].QueueAddTimestamp = table[first].QueueAddTimestamp

\* The consumer has received and deleted the first message and now receives
\* the second one, the third still waiting.
C6_Witness ==
    /\ pc[Producer] = Done
    /\ useFIFO
    /\ out.op = "Peek"
    /\ out.err = ""
    /\ out.id = SendOrder[2]
    /\ DOMAIN table = {SendOrder[2], SendOrder[3]}

\* Record id is the head of the STANDARD queue: the one record of the
\* smallest QueueAddTimestamp.
IsHead(id) ==
    /\ id \in QueueIds(table, QueueTypeStandard)
    /\ \A j \in QueueIds(table, QueueTypeStandard) \ {id} :
          table[id].QueueAddTimestamp < table[j].QueueAddTimestamp

\* C7, first part: with UseFIFO, while the head of the STANDARD queue is
\* PROCESSING inside its visibility window, a receive returns EmptyQueueError
\* and changes nothing, whatever the records behind the head are.
C7_FIFOHeadBlocks ==
    [][\A c \in Clients, id \in Ids :
          (/\ useFIFO
           /\ IsHead(id)
           /\ id \in InFlight(table, now)
           /\ Queries(c)) =>
              /\ out' = [client |-> c, op |-> "Peek", err |-> EmptyQueueError,
                         id |-> "", msg |-> NoMsg]
              /\ pc'[c] = Idle
              /\ table' = table]_vars

\* C7, conclusion: with UseFIFO at most one STANDARD record is in flight
\* (granting records of one timestamp, which the index returns in either order).
C7_OneInFlight ==
    useFIFO =>
        \A i, j \in InFlight(table, now) :
            table[i].QueueAddTimestamp = table[j].QueueAddTimestamp

\* C8: without UseFIFO and with one client, a receive chooses a visible
\* STANDARD record of the smallest QueueAddTimestamp among the visible ones,
\* passing over the records in flight, and goes through; its update puts the
\* record in flight, so that consecutive receives inside the window return
\* the READY records in ascending QueueAddTimestamp; with no visible record
\* the receive returns EmptyQueueError and changes nothing.
C8_OldestVisibleFirst ==
    /\ [][\A c \in SerialClients :
              (~useFIFO /\ Queries(c)) =>
                  IF Visible(table, now) = {}
                  THEN /\ out'.err = EmptyQueueError
                       /\ pc'[c] = Idle
                       /\ table' = table
                  ELSE /\ pc'[c] = "peek_get"
                       /\ loc'[c].id \in Visible(table, now)
                       /\ \A j \in Visible(table, now) :
                             table[loc'[c].id].QueueAddTimestamp
                                 <= table[j].QueueAddTimestamp]_vars
    /\ [][\A c \in SerialClients :
              (~useFIFO /\ Claims(c)) =>
                  /\ loc[c].id \in InFlight(table', now)
                  /\ \A j \in DOMAIN table \ {loc[c].id} : table'[j] = table[j]]_vars
    /\ [](~useFIFO => \A c \in SerialClients : ReceiveGoesThrough(c))

\* A receive has just returned a record behind one that is still in flight.
C8_Witness ==
    /\ ~useFIFO
    /\ out.op = "Peek"
    /\ out.err = ""
    /\ out.id \in InFlight(table, now)
    /\ \E j \in InFlight(table, now) :
          /\ table[j].QueueAddTimestamp < table[out.id].QueueAddTimestamp
          /\ table[j].ReceiveCount = 1
          /\ table[out.id].ReceiveCount = 1

\* C9: when the conditional update of a receive fails, the receive does not
\* return ConditionalCheckFailedError: with UseFIFO it returns
\* EmptyQueueError, and without UseFIFO it goes on while another candidate is
\* left to claim.
C9_FailedUpdateIsHandled ==
    [][\A c \in Clients :
          (/\ pc[c] = "peek_update"
           /\ ~VersionMatches(table, loc[c].id, loc[c].version)
           /\ pc'[c] # pc[c]) =>
              /\ out'.err # ConditionalCheckFailedError
              /\ useFIFO => out'.err = EmptyQueueError
              /\ (~useFIFO /\ Visible(table, now) \ {loc[c].id} # {}) =>
                    pc'[c] # Idle]_vars

\* C10: a successful receive returns the stored record, which is PROCESSING
\* with the client's visibility timeout and has been received at least once.
C10_ReturnsProcessingRecord ==
    (out.op = "Peek" /\ out.err = "") =>
        /\ out.id \in DOMAIN table
        /\ out.msg = table[out.id]
        /\ out.msg.Status = StatusProcessing
        /\ out.msg.VisibilityTimeout = DefaultVisibilityTimeout
        /\ out.msg.ReceiveCount >= 1

\* The records other than id are what they were.
OthersUnchanged(id) ==
    \A j \in (DOMAIN table \cup DOMAIN table') \ {id} :
        /\ j \in DOMAIN table
        /\ j \in DOMAIN table'
        /\ table'[j] = table[j]

\* The step is the return of operation op, called by client c with id.
Returns(c, op, id) ==
    /\ out'.client = c
    /\ out'.op = op
    /\ out'.id = id

\* C11: ReceiveMessage never receives a record of the DLQ: the conditional
\* update of a receive never succeeds on a record whose QueueType is DLQ.
C11_NeverReceivesDLQRecord ==
    [][\A c \in Clients :
          Claims(c) => table[loc[c].id].QueueType = QueueTypeStandard]_vars

\* C12: SendMessage with a non-empty id that is not in the table succeeds,
\* stores and returns a record with Version 1, Status READY, QueueType
\* STANDARD, ReceiveCount 0, VisibilityTimeout 0, CreatedAt, UpdatedAt and
\* SentAt equal to the clock, ReceivedAt empty and QueueAddTimestamp equal to
\* the clock plus DelaySeconds, and changes no other record.
C12_SendCreatesReadyRecord ==
    [][\A c \in SerialClients, id \in Ids, delay \in 0..MaxDelay :
          (SendMessage(c, id, delay) /\ id \notin DOMAIN table) =>
              /\ out'.err = ""
              /\ id \in DOMAIN table'
              /\ out'.msg = table'[id]
              /\ table'[id].ID = id
              /\ table'[id].Version = 1
              /\ table'[id].Status = StatusReady
              /\ table'[id].QueueType = QueueTypeStandard
              /\ table'[id].ReceiveCount = 0
              /\ table'[id].VisibilityTimeout = 0
              /\ table'[id].CreatedAt = now
              /\ table'[id].UpdatedAt = now
              /\ table'[id].SentAt = now
              /\ table'[id].ReceivedAt = NoTime
              /\ table'[id].QueueAddTimestamp = now + delay
              /\ OthersUnchanged(id)]_vars

\* A message has just been sent with the longest delay next to a record that
\* was received before.
C12_Witness ==
    /\ out.op = "SendMessage"
    /\ out.err = ""
    /\ out.msg.QueueAddTimestamp = now + MaxDelay
    /\ \E j \in DOMAIN table \ {out.id} : table[j].Version > 1

\* C13: SendMessage with an id that is in the table, in either queue and in
\* any status, returns IDDuplicatedError and leaves the table as it is; with
\* an id that is not in the table it succeeds, so that of two clients that
\* send one fresh id, in either order, the first succeeds and the second
\* gets IDDuplicatedError.
C13_DuplicateIdRejected ==
    [][\A c \in Clients, id \in RaceIds :
          (pc[c] = Idle /\ Returns(c, "SendMessage", id)) =>
              IF id \in DOMAIN table
              THEN /\ out'.err = IDDuplicatedError
                   /\ table' = table
              ELSE /\ out'.err = ""
                   /\ id \in DOMAIN table'
                   /\ table'[id].Version = 1]_vars

\* A send has just been rejected for a record that is PROCESSING in the DLQ
\* or READY in the DLQ or PROCESSING in the queue.
C13_Witness ==
    /\ out.op = "SendMessage"
    /\ out.err = IDDuplicatedError
    /\ out.id \in DOMAIN table
    /\ \/ table[out.id].QueueType = QueueTypeDLQ
       \/ table[out.id].Status = StatusProcessing

\* The operations that take an id.
IdOperations ==
    {"SendMessage", "Delete", "UpdateMessageAsVisible", "SendToDLQ", "Restore",
     "Get", "Put"}

\* The step is the first one of operation op, called by client c with id: the
\* operation returns at once or goes on to the store call at label.
Calls(c, op, label, id) ==
    /\ pc[c] = Idle
    /\ \/ Returns(c, op, id)
       \/ pc'[c] = label /\ loc'[c].id = id

\* C14: an operation that takes an id and is called with the empty id returns
\* IDNotProvidedError in its first step, goes on to no store call and leaves
\* the table as it is.
C14_EmptyIdRejected ==
    [][\A c \in SerialClients :
          (/\ pc[c] = Idle
           /\ \/ out'.client = c /\ out'.op \in IdOperations /\ out'.id = ""
              \/ pc'[c] \notin {Idle, "peek_get"} /\ loc'[c].id = "") =>
              /\ out'.err = IDNotProvidedError
              /\ pc'[c] = Idle
              /\ table' = table]_vars

\* ReplaceMessage has just been called with the empty id on a table that
\* holds a record.
C14_Witness ==
    /\ out.op = "Put"
    /\ out.id = ""
    /\ out.err = IDNotProvidedError
    /\ DOMAIN table # {}

\* C15: DeleteMessage with a non-empty id succeeds whether the record exists
\* or not (so a second delete succeeds as the first did), leaves the table
\* without a record of that id and every other record as it was; GetMessage
\* of an id that has no record returns nil without an error.
C15_DeleteIsIdempotent ==
    /\ [][\A c \in SerialClients, id \in Ids :
              (pc[c] = Idle /\ Returns(c, "Delete", id)) =>
                  /\ out'.err = ""
                  /\ id \notin DOMAIN table'
                  /\ OthersUnchanged(id)]_vars
    /\ [][\A c \in SerialClients, id \in Ids :
              (pc[c] = Idle /\ Returns(c, "Get", id) /\ id \notin DOMAIN table) =>
                  /\ out'.err = ""
                  /\ out'.msg = NoMsg
                  /\ table' = table]_vars

\* A delete has just succeeded next to a record that was received before and
\* is still there.
C15_Witness ==
    /\ out.op = "Delete"
    /\ out.err = ""
    /\ out.id \in Ids \ DOMAIN table
    /\ \E j \in DOMAIN table : table[j].ReceiveCount = 1

\* C16: MoveMessageToDLQ called on a record whose QueueType is DLQ returns in
\* its first step, without an error and with the Status, UpdatedAt and Version
\* the record has, and leaves the table as it is.
C16_MoveToDLQIsIdempotent ==
    [][\A c \in SerialClients, id \in Ids :
          (/\ Calls(c, "SendToDLQ", "dlq_update", id)
           /\ id \in DOMAIN table
           /\ table[id].QueueType = QueueTypeDLQ) =>
              /\ pc'[c] = Idle
              /\ out'.err = ""
              /\ out'.msg = [ID |-> id,
                             Status |-> table[id].Status,
                             LastUpdatedTimestamp |-> table[id].UpdatedAt,
                             Version |-> table[id].Version]
              /\ table' = table]_vars

\* MoveMessageToDLQ has just returned for a record that was moved to the DLQ
\* at an earlier time and has not been written since.
C16_Witness ==
    /\ out.op = "SendToDLQ"
    /\ out.err = ""
    /\ out.id \in DOMAIN table
    /\ table[out.id].QueueType = QueueTypeDLQ
    /\ table[out.id].Version = 2
    /\ table[out.id].UpdatedAt < now
    /\ out.msg.Version = 2

\* C17: MoveMessageToDLQ called with a missing id returns IDNotFoundError and
\* writes nothing; called on a STANDARD record, READY or PROCESSING, it goes
\* on to its update, which succeeds and leaves the record with QueueType DLQ,
\* Status READY, VisibilityTimeout 0, ReceiveCount 0, ReceivedAt empty,
\* QueueAddTimestamp, SentAt and UpdatedAt equal to the clock and Version one
\* greater, every other field and record as it was.
C17_MoveToDLQResetsRecord ==
    /\ [][\A c \in SerialClients, id \in Ids :
              Calls(c, "SendToDLQ", "dlq_update", id) =>
                  /\ table' = table
                  /\ id \notin DOMAIN table =>
                        /\ pc'[c] = Idle
                        /\ out'.err = IDNotFoundError
                  /\ (id \in DOMAIN table /\ table[id].QueueType = QueueTypeStandard) =>
                        pc'[c] = "dlq_update"]_vars
    /\ [][\A c \in SerialClients :
              (pc[c] = "dlq_update" /\ pc'[c] = Idle) =>
                  /\ out'.err = ""
                  /\ loc[c].id \in DOMAIN table
                  /\ table'[loc[c].id] =
                        [table[loc[c].id] EXCEPT !.QueueType = QueueTypeDLQ,
                                                 !.Status = StatusReady,
                                                 !.VisibilityTimeout = 0,
                                                 !.ReceiveCount = 0,
                                                 !.ReceivedAt = NoTime,
                                                 !.QueueAddTimestamp = now,
                                                 !.SentAt = now,
                                                 !.UpdatedAt = now,
                                                 !.Version = @ + 1]
                  /\ out'.msg.Version = table[loc[c].id].Version + 1
                  /\ OthersUnchanged(loc[c].id)]_vars

\* MoveMessageToDLQ has just moved a record that was created and changed once
\* in the same tick: sent and received, and moved inside its window, or put
\* at version 2.
C17_Witness ==
    /\ out.op = "SendToDLQ"
    /\ out.err = ""
    /\ out.id \in DOMAIN table
    /\ table[out.id].QueueType = QueueTypeDLQ
    /\ table[out.id].Status = StatusReady
    /\ table[out.id].Version = 3
    /\ table[out.id].CreatedAt = now
    /\ table[out.id].UpdatedAt = now

\* The visible records other than r that a forward scan may return before r,
\* and with UseFIFO every other record it may return before r.
Ahead(r) ==
    {j \in (IF useFIFO THEN QueueIds(table, QueueTypeStandard)
                       ELSE Visible(table, now)) \ {r} :
        table[j].QueueAddTimestamp <= table[r].QueueAddTimestamp}

\* C18: RedriveMessage called with a missing id returns IDNotFoundError and
\* writes nothing; its update of a DLQ record at time t1 succeeds and leaves
\* the record with QueueType STANDARD, Status READY, ReceiveCount 0,
\* QueueAddTimestamp and UpdatedAt t1 and Version one greater, every other
\* field and record as it was; and a receive that finds a READY record of the
\* STANDARD queue with no record ahead of it chooses that record, goes through
\* and returns it.
C18_RedriveRestoresRecord ==
    /\ [][\A c \in SerialClients, id \in Ids :
              (Calls(c, "Restore", "restore_update", id) /\ id \notin DOMAIN table) =>
                  /\ pc'[c] = Idle
                  /\ out'.err = IDNotFoundError
                  /\ table' = table]_vars
    /\ [][\A c \in SerialClients :
              (pc[c] = "restore_update" /\ pc'[c] = Idle) =>
                  /\ out'.err = ""
                  /\ loc[c].id \in DOMAIN table
                  /\ table[loc[c].id].QueueType = QueueTypeDLQ
                  /\ table'[loc[c].id] =
                        [table[loc[c].id] EXCEPT !.QueueType = QueueTypeStandard,
                                                 !.Status = StatusReady,
                                                 !.ReceiveCount = 0,
                                                 !.QueueAddTimestamp = now,
                                                 !.UpdatedAt = now,
                                                 !.Version = @ + 1]
                  /\ out'.msg.Version = table[loc[c].id].Version + 1
                  /\ OthersUnchanged(loc[c].id)]_vars
    /\ [][\A c \in SerialClients, r \in Ids :
              (/\ Queries(c)
               /\ r \in QueueIds(table, QueueTypeStandard)
               /\ table[r].Status = StatusReady
               /\ Ahead(r) = {}) =>
                  /\ pc'[c] = "peek_get"
                  /\ loc'[c].id = r]_vars
    /\ [][\A c \in SerialClients :
              (pc[c] = "peek_return" /\ pc'[c] = Idle) =>
                  /\ out'.err = ""
                  /\ out'.id = loc[c].id
                  /\ out'.msg = table[loc[c].id]]_vars
    /\ [](\A c \in SerialClients :
              pc[c] = "peek_update" => VersionMatches(table, loc[c].id, loc[c].version))

\* A receive has just returned a record that was put into the DLQ at version
\* 1 and redriven at a later time: re-stamped, received once, Version 3.
C18_Witness ==
    /\ out.op = "Peek"
    /\ out.err = ""
    /\ out.msg # NoMsg
    /\ out.msg.Version = 3
    /\ out.msg.ReceiveCount = 1
    /\ out.msg.QueueAddTimestamp > out.msg.CreatedAt

\* C19: RedriveMessage called on a record whose QueueType is STANDARD returns
\* InvalidStateTransitionError and leaves the table as it is.
C19_RedriveOfStandardRejected ==
    [][\A c \in SerialClients, id \in Ids :
          (/\ Calls(c, "Restore", "restore_update", id)
           /\ id \in DOMAIN table
           /\ table[id].QueueType = QueueTypeStandard) =>
              /\ out'.err = InvalidStateTransitionError
              /\ table' = table]_vars

\* C20: UpdateMessageAsVisible called with a missing id returns
\* IDNotFoundError, called on a READY record it returns
\* InvalidStateTransitionError, and neither writes; called on a PROCESSING
\* record it goes on to its update, which succeeds and leaves the record with
\* Status READY, VisibilityTimeout 0, UpdatedAt equal to the clock and Version
\* one greater, every other field and record as it was, so that a receive
\* sees the record at once.
C20_VisibleAgainAtOnce ==
    /\ [][\A c \in SerialClients, id \in Ids :
              Calls(c, "UpdateMessageAsVisible", "visible_update", id) =>
                  /\ table' = table
                  /\ id \notin DOMAIN table =>
                        /\ pc'[c] = Idle
                        /\ out'.err = IDNotFoundError
                  /\ (id \in DOMAIN table /\ table[id].Status = StatusReady) =>
                        /\ pc'[c] = Idle
                        /\ out'.err = InvalidStateTransitionError
                  /\ (id \in DOMAIN table /\ table[id].Status = StatusProcessing) =>
                        pc'[c] = "visible_update"]_vars
    /\ [][\A c \in SerialClients :
              (pc[c] = "visible_update" /\ pc'[c] = Idle) =>
                  /\ out'.err = ""
                  /\ loc[c].id \in DOMAIN table
                  /\ table[loc[c].id].Status = StatusProcessing
                  /\ table'[loc[c].id] =
                        [table[loc[c].id] EXCEPT !.Status = StatusReady,
                                                 !.VisibilityTimeout = 0,
                                                 !.UpdatedAt = now,
                                                 !.Version = @ + 1]
                  /\ out'.msg.Version = table[loc[c].id].Version + 1
                  /\ loc[c].id \in Visible(table', now)
                  /\ OthersUnchanged(loc[c].id)]_vars

\* A record received and, still inside its window, made visible again.
C20_Witness ==
    /\ out.op = "UpdateMessageAsVisible"
    /\ out.err = ""
    /\ out.id \in DOMAIN table
    /\ table[out.id].Status = StatusReady
    /\ table[out.id].ReceiveCount = 1
    /\ table[out.id].ReceivedAt = now
    /\ table[out.id].Version = 3

\* ------------------------------------------- the queue under fair scheduling

\* The instant before t; the empty timestamp and the oldest instant kept stay.
Earlier(t) ==
    IF t > 0 THEN t - 1 ELSE t

\* The number of distinct sort keys of the table below q.
KeysBelow(tbl, q) ==
    Cardinality({tbl[j].QueueAddTimestamp :
                    j \in {i \in DOMAIN tbl : tbl[i].QueueAddTimestamp < q}})

\* The table one instant later, its timestamps counted from the new instant:
\* each moves one instant into the past. A received_at older than the instants
\* kept is past every visibility window, and the sort keys keep their order,
\* which is all a scan reads of them.
Aged(tbl) ==
    [i \in DOMAIN tbl |->
        [tbl[i] EXCEPT !.CreatedAt = Earlier(@),
                       !.UpdatedAt = Earlier(@),
                       !.SentAt = Earlier(@),
                       !.ReceivedAt = Earlier(@),
                       !.QueueAddTimestamp =
                           IF @ > KeysBelow(tbl, @) THEN @ - 1 ELSE @]]

\* The clock that never stops: up to MaxTime it advances as Tick does, from
\* then on the instants are counted back from the present.
LiveTick ==
    /\ IF now < MaxTime
       THEN now' = now + 1 /\ table' = table
       ELSE now' = now /\ table' = Aged(table)
    /\ out' = NoOut
    /\ UNCHANGED <<useFIFO, pc, loc, stale>>

\* The record with its counters kept within the values followed.
Capped(m) ==
    [m EXCEPT !.Version = IF @ > MaxVersion THEN MaxVersion ELSE @,
              !.ReceiveCount = IF @ > MaxVersion - 1 THEN MaxVersion - 1 ELSE @]

\* The conditional update of Peek, any number of times over: the counters
\* stop at their caps. The consumer is the only writer of a stored record, so
\* the version it read is the version stored.
LivePeekUpdate(c) ==
    /\ pc[c] = "peek_update"
    /\ LET id == loc[c].id
           cond == VersionMatches(table, id, loc[c].version)
           peeked == markAsProcessing(
                        [NewMessage(id, now, 0) EXCEPT !.ReceiveCount = loc[c].receiveCount],
                        now, DefaultVisibilityTimeout)
           updated == updateDynamoDBItem(table, id, cond, Attrs(peeked, PeekSets))
       IN  /\ table' = [i \in DOMAIN updated |-> Capped(updated[i])]
           /\ IF cond
              THEN /\ Goto(c, "peek_return", loc[c])
                   /\ UNCHANGED stale
              ELSE /\ Finish(c, "Peek", PeekUpdateError, id, NoMsg)
                   /\ stale' = Cleared(stale, c)
    /\ UNCHANGED <<now, useFIFO>>

\* The consumer's ReceiveMessage, step by step.
LiveReceive ==
    \/ PeekQuery(Consumer)
    \/ PeekGet(Consumer)
    \/ LivePeekUpdate(Consumer)
    \/ PeekReturn(Consumer)

InitLive ==
    /\ Init
    /\ ~useFIFO

\* A producer that sends, a consumer that receives and deletes, and the clock.
NextLive ==
    \/ LiveTick
    \/ \E id \in Ids, delay \in 0..MaxDelay : SendMessage(Producer, id, delay)
    \/ LiveReceive
    \/ \E id \in Ids : Delete(Consumer, id)

\* The consumer keeps calling ReceiveMessage and the clock keeps advancing.
SpecLive ==
    /\ InitLive
    /\ [][NextLive]_vars
    /\ WF_vars(LiveReceive)
    /\ WF_vars(LiveTick)

\* --------------------------------------------- a consumer that is too late

\* The consumer that receives a message first and lets its window run out.
StaleConsumer == "c1"

\* The consumer that receives the message after it.
CurrentConsumer == "c2"

\* The first receive of a message is the stale consumer's.
StaleReceive ==
    /\ \A id \in DOMAIN table : table[id].ReceiveCount = 0
    /\ PeekQuery(StaleConsumer)

\* The receives after it are the current consumer's.
CurrentReceive ==
    /\ \E id \in DOMAIN table : table[id].ReceiveCount > 0
    /\ PeekQuery(CurrentConsumer)

\* Two consumers of one message: the second receives it after the first, and
\* the first then finishes its work on it by ID.
NextStale ==
    \/ Tick
    \/ \E id \in RaceIds : SendMessage(StaleConsumer, id, 0)
    \/ StaleReceive
    \/ CurrentReceive
    \/ \E c \in Clients :
         \/ PeekGet(c)
         \/ PeekUpdate(c)
         \/ PeekReturn(c)
    \/ \E id \in RaceIds : Delete(StaleConsumer, id)
    \/ \E id \in RaceIds : UpdateMessageAsVisibleGet(StaleConsumer, id)
    \/ UpdateMessageAsVisibleUpdate(StaleConsumer)
    \/ \E id \in RaceIds : SendToDLQGet(StaleConsumer, id)
    \/ SendToDLQUpdate(StaleConsumer)

SpecStale == Init /\ [][NextStale]_vars

\* ------------------------------------------------ a cancelled store call

\* The error of a store call whose context was cancelled.
ContextCanceled == "context canceled"

ConditionalCheckFailedException == "ConditionalCheckFailedException"

DynamoDBAPIError == "DynamoDBAPIError"

\* handleDynamoDBError: the error an operation returns for the error of a
\* store call.
handleDynamoDBError(err) ==
    IF err = ConditionalCheckFailedException
    THEN ConditionalCheckFailedError
    ELSE DynamoDBAPIError

\* The operation whose store call is in flight at a label.
OperationAt(label) ==
    CASE label \in {"peek_get", "peek_update", "peek_return"} -> "Peek"
      [] label = "dlq_update" -> "SendToDLQ"
      [] label = "restore_update" -> "Restore"
      [] label \in {"put_delete", "put_put"} -> "Put"
      [] OTHER -> ""

\* The store call the operation of client c is about to get an answer from
\* is interrupted by the cancellation of its context: it writes nothing and
\* the operation returns what handleDynamoDBError makes of the error.
Canceled(c) ==
    /\ pc[c] \notin {Idle, Done}
    /\ Finish(c, OperationAt(pc[c]), handleDynamoDBError(ContextCanceled),
              loc[c].id, NoMsg)
    /\ stale' = Cleared(stale, c)
    /\ UNCHANGED <<table, now, useFIFO>>

\* One client whose calls may be cancelled.
NextCancel ==
    \/ Tick
    \/ \E c \in SerialClients :
         \/ \E id \in Ids : SendMessage(c, id, 0)
         \/ PeekQuery(c)
         \/ PeekGet(c)
         \/ PeekUpdate(c)
         \/ PeekReturn(c)
         \/ \E id \in Ids : SendToDLQGet(c, id)
         \/ SendToDLQUpdate(c)
         \/ \E id \in Ids : RestoreGet(c, id)
         \/ RestoreUpdate(c)
         \/ \E id \in RaceIds : PutGet(c, id)
         \/ PutDelete(c)
         \/ PutPut(c)
         \/ Canceled(c)

SpecCancel == Init /\ [][NextCancel]_vars

\* The step is the last one of an operation of client c at label, on record id.
Ends(c, label, id) ==
    /\ pc[c] = label
    /\ pc'[c] = Idle
    /\ loc[c].id = id

Updates(c) ==
    /\ pc[c] \in {"peek_update", "dlq_update", "restore_update", "visible_update",
                  "visibility_update"}
    /\ pc'[c] # pc[c]

\* C22: a conditional update (of ReceiveMessage, UpdateMessageAsVisible,
\* ChangeMessageVisibility, MoveMessageToDLQ or RedriveMessage) that finds a
\* stored Version other than the one its operation observed, or no record,
\* writes nothing, and its operation ends at once with
\* ConditionalCheckFailedError, without another attempt.
C22_StaleUpdateRejected ==
    [][\A c \in Clients :
          (Updates(c) /\ ~VersionMatches(table, loc[c].id, loc[c].version)) =>
              /\ table' = table
              /\ pc'[c] = Idle
              /\ out'.client = c
              /\ out'.err = ConditionalCheckFailedError]_vars

\* MoveMessageToDLQ has just lost against a receive: the record carries what
\* the receive wrote, at the version the receive gave it.
C22_Witness ==
    /\ out.op = "SendToDLQ"
    /\ out.err = ConditionalCheckFailedError
    /\ out.id \in DOMAIN table
    /\ table[out.id].QueueType = QueueTypeStandard
    /\ table[out.id].Status = StatusProcessing
    /\ table[out.id].Version = 2
    /\ table[out.id].ReceiveCount = 1

\* C23: no operation ends in a nil pointer dereference.
C23_NoPanic ==
    out.err # NilDereference

IsPrefixInOrder(s, S) ==
    /\ Len(s) = (IF Cardinality(S) < StatsListLimit THEN Cardinality(S)
                 ELSE StatsListLimit)
    /\ \A i \in 1..Len(s) : s[i] \in S
    /\ \A i, j \in 1..Len(s) :
          i < j => /\ s[i] # s[j]
                   /\ table[s[i]].QueueAddTimestamp <= table[s[j]].QueueAddTimestamp
    /\ \A i \in 1..Len(s) : \A r \in S :
          table[r].QueueAddTimestamp < table[s[i]].QueueAddTimestamp =>
              \E j \in 1..Len(s) : s[j] = r

\* The STANDARD records whose status is PROCESSING.
Processing ==
    {i \in DOMAIN table :
        /\ table[i].QueueType = QueueTypeStandard
        /\ table[i].Status = StatusProcessing}

C25_WitnessOrder ==
    /\ out.op = "GetQueueStats"
    /\ Len(out.msg.First100IDsInQueue) = 2
    /\ Len(out.msg.First100SelectedIDsInQueue) = 1
    /\ out.msg.First100SelectedIDsInQueue[1] = out.msg.First100IDsInQueue[2]
    /\ table[out.msg.First100IDsInQueue[1]].QueueAddTimestamp
           < table[out.msg.First100IDsInQueue[2]].QueueAddTimestamp

C26_WitnessEmpty ==
    /\ out.op = "GetDLQStats"
    /\ out.msg.TotalRecordsInDLQ = 0
    /\ out.msg.First100IDsInQueue = <<>>
    /\ Cardinality(DOMAIN table) = 2

\* C27: GetMessage with a non-empty ID succeeds and returns the stored
\* record exactly as it is, or nothing when no record has the ID; no record
\* is modified.
C27_GetReturnsStoredRecord ==
    [][\A c \in Clients :
          (pc[c] = Idle /\ out'.client = c /\ out'.op = "Get" /\ out'.id # "") =>
              /\ out'.err = ""
              /\ out'.id \in DOMAIN table => out'.msg = table[out'.id]
              /\ out'.id \notin DOMAIN table => out'.msg = NoMsg
              /\ table' = table]_vars

\* GetMessage has returned a record in processing that was received twice.
C27_Witness ==
    /\ out.op = "Get"
    /\ out.err = ""
    /\ out.msg # NoMsg
    /\ out.msg.Status = StatusProcessing
    /\ out.msg.ReceiveCount = 2
    /\ out.msg = table[out.id]

\* GetMessage has found no record under an ID while another record is stored.
C27_WitnessMissing ==
    /\ out.op = "Get"
    /\ out.err = ""
    /\ out.id # ""
    /\ out.msg = NoMsg
    /\ DOMAIN table # {}

\* C28: the put of ReplaceMessage succeeds whatever is stored under the ID;
\* afterwards the record under the ID is the message given, with the Version
\* given, and every other record is as before.
C28_ReplaceStoresMessage ==
    /\ [][\A c \in Clients :
              (pc[c] = "put_put" /\ pc'[c] = Idle) =>
                  /\ out'.op = "Put"
                  /\ out'.err = ""
                  /\ out'.msg.ID = loc[c].id
                  /\ loc[c].id \in DOMAIN table'
                  /\ table'[loc[c].id] = out'.msg
                  /\ OthersUnchanged(loc[c].id)]_vars
    /\ [][\A c \in Clients :
              pc[c] \in {"put_delete", "put_put"} =>
                  pc'[c] \in {pc[c], "put_put", Idle}]_vars

\* ReplaceMessage has replaced a record by one of a lower Version while
\* another record is stored.
C28_Witness ==
    /\ out.op = "Put"
    /\ out.err = ""
    /\ out.msg # NoMsg
    /\ out.msg.Version = 1
    /\ out.msg.QueueType = QueueTypeDLQ
    /\ table[out.id] = out.msg
    /\ Cardinality(DOMAIN table) = 2

\* ChangeMessageVisibility on a PROCESSING record writes the new timeout, the
\* clock and the next version and nothing else; on a READY record it is
\* rejected with InvalidStateTransitionError and writes nothing.
C29_ChangesVisibilityOnly ==
    /\ [][\A c \in SerialClients, id \in Ids :
              Calls(c, "ChangeMessageVisibility", "visibility_update", id) =>
                  /\ table' = table
                  /\ (id \in DOMAIN table /\ table[id].Status = StatusReady) =>
                        /\ pc'[c] = Idle
                        /\ out'.err = InvalidStateTransitionError
                  /\ (id \in DOMAIN table /\ table[id].Status = StatusProcessing) =>
                        pc'[c] = "visibility_update"]_vars
    /\ [][\A c \in SerialClients, n \in 0..MaxVisibilityTimeout :
              ChangeMessageVisibilityUpdate(c, n) =>
                  /\ out'.err = ""
                  /\ table[loc[c].id].Status = StatusProcessing
                  /\ table'[loc[c].id] =
                        [table[loc[c].id] EXCEPT !.VisibilityTimeout = n,
                                                 !.UpdatedAt = now,
                                                 !.Version = @ + 1]
                  /\ OthersUnchanged(loc[c].id)]_vars

\* The only record of the queue is in processing.
OnlyInProcessing(id) ==
    /\ QueueIds(table, QueueTypeStandard) = {id}
    /\ table[id].Status = StatusProcessing

\* A record in processing is eligible for a receive from ReceivedAt plus its
\* own VisibilityTimeout on, and not before.
C29_EligibleAtItsTimeout ==
    [][\A c \in SerialClients, id \in Ids :
          (OnlyInProcessing(id) /\ Queries(c)) =>
              IF now >= table[id].ReceivedAt + table[id].VisibilityTimeout
              THEN pc'[c] = "peek_get" /\ loc'[c].id = id
              ELSE pc'[c] = Idle /\ out'.err = EmptyQueueError]_vars

\* C29: ChangeMessageVisibility(ID, n) on a PROCESSING record sets
\* VisibilityTimeout to n, UpdatedAt to the clock and Version to Version + 1
\* and leaves Status, ReceivedAt, ReceiveCount, QueueType and
\* QueueAddTimestamp as they are, so that the record is eligible for a receive
\* from ReceivedAt + n on; on a READY record it is rejected and changes
\* nothing.
C29_ChangeMessageVisibility ==
    /\ C29_ChangesVisibilityOnly
    /\ C29_EligibleAtItsTimeout

\* ReceiveMessage has just returned record id.
Returned(id) ==
    /\ out.op = "Peek"
    /\ out.err = ""
    /\ out.id = id

C31_ReceiveCountCountsReceives ==
    [][\A c \in Clients :
          /\ Claims(c) =>
                table'[loc[c].id].ReceiveCount = table[loc[c].id].ReceiveCount + 1
          /\ (pc[c] = Idle /\ Returns(c, "SendMessage", out'.id) /\ out'.err = "") =>
                table'[out'.id].ReceiveCount = 0
          /\ (pc[c] \in {"dlq_update", "restore_update"} /\ pc'[c] = Idle
                  /\ out'.err = "") =>
                table'[loc[c].id].ReceiveCount = 0
          /\ (pc[c] \in {"visible_update", "visibility_update"} /\ pc'[c] = Idle
                  /\ loc[c].id \in DOMAIN table) =>
                table'[loc[c].id].ReceiveCount = table[loc[c].id].ReceiveCount
          /\ (pc[c] \in {"peek_update", "dlq_update", "restore_update"}
                  /\ pc'[c] = Idle /\ out'.err # "") =>
                table' = table]_vars

\* A record received, expired, received again and made visible: two receives
\* counted.
C31_Witness ==
    \E id \in DOMAIN table :
        /\ table[id].Status = StatusReady
        /\ table[id].ReceiveCount = 2
        /\ table[id].QueueType = QueueTypeStandard

\* C32: GetQueueStats counts as in processing exactly the STANDARD records a
\* receive at the same instant would skip as invisible, so a PROCESSING record
\* whose window has run out is counted as not started.
C32_StatsUseVisibilityPredicate ==
    [][\A c \in Clients :
          (pc[c] = Idle /\ out'.client = c /\ out'.op = "GetQueueStats") =>
              /\ out'.msg.TotalRecordsInProcessing = Cardinality(InFlight(table, now))
              /\ out'.msg.TotalRecordsNotStarted = Cardinality(Visible(table, now))]_vars

\* C33: every record in processing has a ReceivedAt and a VisibilityTimeout
\* greater than 0, so that its invisibility deadline is later than ReceivedAt.
C33_ProcessingHasDeadline ==
    \A id \in DOMAIN table :
        table[id].Status = StatusProcessing =>
            /\ table[id].ReceivedAt # NoTime
            /\ table[id].VisibilityTimeout > 0

C34_StaleConsumerHarmless ==
    [][\A id \in RaceIds :
          (id \in InFlight(table, now) /\ table[id].ReceiveCount = 2) =>
              /\ id \in DOMAIN table'
              /\ table'[id] = table[id]]_vars

\* C36: an operation whose store call is cancelled returns the
\* context-cancelled error itself, and the table is as it was before the call.
C36_CancelPropagatesUnchanged ==
    [][\A c \in SerialClients :
          Canceled(c) =>
              /\ out'.err = ContextCanceled
              /\ table' = table]_vars

\* The step of Put that deletes the record found.
DeletesForPut(c) ==
    /\ pc[c] = "put_delete"
    /\ pc'[c] = "put_put"
    /\ loc[c].id \in DOMAIN table

\* C40: ReplaceMessage of an ID that exists is atomic for the other clients:
\* no step of it leaves the ID absent from the table, where a Get, a receive
\* or the statistics of another client would miss it, and what another client
\* wrote in between is gone only when the record of the Put is there instead.
C40_ReplaceIsAtomic ==
    [][\A c \in Clients :
          DeletesForPut(c) => loc[c].id \in DOMAIN table']_vars

\* ------------------------------------------- the shipment client (legacy)

StatusUnderConstruction == "UNDER_CONSTRUCTION"

StatusReadyToShip == "READY_TO_SHIP"

\* The status of a shipment that was peeked: neither of the two above.
StatusProcessingShipment == "PROCESSING_SHIPMENT"

StatusInDLQ == "IN_DLQ"

RecordNotConstructedError == "RecordNotConstructedError"

IllegalStateError == "IllegalStateError"

\* A shipment as NewDefaultShipment builds it: under construction, in no queue.
NewDefaultShipment(id, t) ==
    [ID |-> id, Status |-> StatusUnderConstruction, Version |-> 1,
     InQueue |-> 0, DLQ |-> 0, SelectedFromQueue |-> FALSE,
     LastUpdatedTimestamp |-> t, AddToQueueTimestamp |-> NoTime,
     PeekUTCTimestamp |-> NoTime, RemoveFromQueueTimestamp |-> NoTime]

MarkAsReadyForShipment(s, t) ==
    [s EXCEPT !.Status = StatusReadyToShip,
              !.LastUpdatedTimestamp = t]

\* The values Enqueue's update expression takes from the shipment.
MarkAsEnqueued(s, t) ==
    [s EXCEPT !.InQueue = 1,
              !.SelectedFromQueue = FALSE,
              !.LastUpdatedTimestamp = t,
              !.AddToQueueTimestamp = t,
              !.Status = StatusReadyToShip]

\* The values Peek's update expression takes from the shipment.
MarkAsPeeked(s, t) ==
    [s EXCEPT !.InQueue = 1,
              !.SelectedFromQueue = TRUE,
              !.LastUpdatedTimestamp = t,
              !.PeekUTCTimestamp = t,
              !.Status = StatusProcessingShipment]

\* The values of Remove's update expression.
MarkAsRemoved(s, t) ==
    [s EXCEPT !.InQueue = 0,
              !.DLQ = 0,
              !.SelectedFromQueue = FALSE,
              !.LastUpdatedTimestamp = t,
              !.RemoveFromQueueTimestamp = t]

MarkAsDLQ(s, t) ==
    [s EXCEPT !.InQueue = 0,
              !.DLQ = 1,
              !.SelectedFromQueue = FALSE,
              !.LastUpdatedTimestamp = t,
              !.Status = StatusInDLQ]

\* A shipment that was taken out of the queue and is in neither queue.
IsRemoved(s) ==
    /\ s.InQueue = 0
    /\ s.DLQ = 0
    /\ ~s.SelectedFromQueue
    /\ s.RemoveFromQueueTimestamp # NoTime

\* A queued shipment is selected while the timeout the client passes has not
\* run out since it was peeked.
ShipmentIsQueueSelected(s, t, visibilityTimeout) ==
    /\ s.SelectedFromQueue
    /\ t < s.PeekUTCTimestamp + visibilityTimeout

\* The items the tests put into the table before a call.
TestShipmentItems(id, t) ==
    {NewDefaultShipment(id, t),
     MarkAsReadyForShipment(NewDefaultShipment(id, t), t),
     MarkAsEnqueued(NewDefaultShipment(id, t), t),
     MarkAsPeeked(NewDefaultShipment(id, t), t),
     MarkAsRemoved(NewDefaultShipment(id, t), t),
     MarkAsDLQ(NewDefaultShipment(id, t), t)}

\* The Result of an operation on shipment s.
ShipmentResult(s) ==
    [ID |-> s.ID, Status |-> s.Status,
     LastUpdatedTimestamp |-> s.LastUpdatedTimestamp, Version |-> s.Version]

\* The local variables of an operation on a shipment; `before` is the stored
\* shipment when the operation first saw it.
ShipmentLoc(id, version, before) ==
    [id |-> id, version |-> version, before |-> before]

\* The queueing index: the shipments with queued = 1 in ascending
\* last_updated_timestamp, equal timestamps in any order.
QueueingIndex(tbl) ==
    LET S == {i \in DOMAIN tbl : tbl[i].InQueue = 1}
    IN  {s \in [1..Cardinality(S) -> S] :
            /\ \A i, j \in 1..Cardinality(S) : i # j => s[i] # s[j]
            /\ \A i, j \in 1..Cardinality(S) :
                  i < j => tbl[s[i]].LastUpdatedTimestamp
                              <= tbl[s[j]].LastUpdatedTimestamp}

\* The loop of Peek over the page: the first item that is not selected.
ShipmentSelect(items, tbl, t) ==
    LET free == {k \in 1..Len(items) :
                    ~ShipmentIsQueueSelected(tbl[items[k]], t, DefaultVisibilityTimeout)}
    IN  IF free = {} THEN "" ELSE items[Min(free)]

\* One PutRequest of the initial data of a table.
PutRequest(id) ==
    /\ id \notin DOMAIN table
    /\ \E item \in TestShipmentItems(id, now) : table' = PutItem(table, item)
    /\ out' = NoOut
    /\ UNCHANGED <<now, useFIFO, pc, loc, stale>>

\* Enqueue accepts every status.
EnqueueStatusErrorNone(preStatus) ==
    ""

\* The two tests of the status Enqueue makes before it writes.
EnqueueStatusError(preStatus) ==
    IF preStatus = StatusUnderConstruction THEN RecordNotConstructedError
    ELSE IF preStatus # StatusReadyToShip THEN IllegalStateError
    ELSE ""

\* The attributes Enqueue's update expression SETs.
EnqueueSets ==
    {"InQueue", "SelectedFromQueue", "LastUpdatedTimestamp",
     "AddToQueueTimestamp", "Status"}

\* Enqueue: validation of the id, Get, and the tests of the status.
EnqueueGet(c, id) ==
    /\ pc[c] = Idle
    /\ IF ~IDProvided(id)
       THEN Finish(c, "Enqueue", IDNotProvidedError, id, NoMsg)
       ELSE IF id \notin DOMAIN table
       THEN Finish(c, "Enqueue", IDNotFoundError, id, NoMsg)
       ELSE IF EnqueueStatusError(table[id].Status) # ""
       THEN Finish(c, "Enqueue", EnqueueStatusError(table[id].Status), id, NoMsg)
       ELSE Goto(c, "enqueue_update",
                 ShipmentLoc(id, table[id].Version, table[id]))
    /\ UNCHANGED <<table, now, useFIFO, stale>>

\* Enqueue: the conditional update, version = the version read.
EnqueueUpdate(c) ==
    /\ pc[c] = "enqueue_update"
    /\ LET id == loc[c].id
           cond == VersionMatches(table, id, loc[c].version)
           enqueued == MarkAsEnqueued(loc[c].before, now)
       IN  /\ cond => table[id].Version < MaxVersion
           /\ table' = updateDynamoDBItem(table, id, cond, Attrs(enqueued, EnqueueSets))
           /\ IF cond
              THEN Goto(c, "enqueue_return", loc[c])
              ELSE Finish(c, "Enqueue", ConditionalCheckFailedError, id, NoMsg)
    /\ UNCHANGED <<now, useFIFO, stale>>

\* Enqueue: the Get whose shipment the EnqueueResult carries.
EnqueueReturn(c) ==
    /\ pc[c] = "enqueue_return"
    /\ Finish(c, "Enqueue", "", loc[c].id, GetItem(table, loc[c].id))
    /\ UNCHANGED <<table, now, useFIFO, stale>>

\* The update expression without the queued attributes.
RemoveSetsKeepQueued ==
    {"DLQ", "SelectedFromQueue", "LastUpdatedTimestamp", "RemoveFromQueueTimestamp"}

\* The attributes Remove's update expression REMOVEs or SETs.
RemoveSets ==
    {"InQueue", "DLQ", "SelectedFromQueue", "LastUpdatedTimestamp",
     "RemoveFromQueueTimestamp"}

\* Remove: Get; a shipment already removed is returned as it is.
RemoveGet(c, id) ==
    /\ pc[c] = Idle
    /\ IF ~IDProvided(id)
       THEN Finish(c, "Remove", IDNotProvidedError, id, NoMsg)
       ELSE IF id \notin DOMAIN table
       THEN Finish(c, "Remove", IDNotFoundError, id, NoMsg)
       ELSE IF IsRemoved(table[id])
       THEN Finish(c, "Remove", "", id, ShipmentResult(table[id]))
       ELSE Goto(c, "remove_update",
                 ShipmentLoc(id, table[id].Version, table[id]))
    /\ UNCHANGED <<table, now, useFIFO, stale>>

\* Remove: the conditional update, version = the version read.
RemoveUpdate(c) ==
    /\ pc[c] = "remove_update"
    /\ LET id == loc[c].id
           cond == VersionMatches(table, id, loc[c].version)
           removed == MarkAsRemoved(loc[c].before, now)
       IN  /\ cond => table[id].Version < MaxVersion
           /\ table' = updateDynamoDBItem(table, id, cond, Attrs(removed, RemoveSets))
           /\ Finish(c, "Remove",
                     IF cond THEN "" ELSE ConditionalCheckFailedError, id,
                     IF cond THEN ShipmentResult(table'[id]) ELSE NoMsg)
    /\ UNCHANGED <<now, useFIFO, stale>>

\* The attributes Peek's update expression SETs on a shipment.
ShipmentPeekSets ==
    {"SelectedFromQueue", "LastUpdatedTimestamp", "PeekUTCTimestamp", "Status"}

\* Dequeue, in Peek: the query of the queueing index and the choice of the
\* shipment.
DequeueQuery(c) ==
    /\ pc[c] = Idle
    /\ \E items \in QueueingIndex(table) :
         LET selectedID == ShipmentSelect(items, table, now)
         IN  IF selectedID = ""
             THEN Finish(c, "Dequeue", EmptyQueueError, "", NoMsg)
             ELSE Goto(c, "dequeue_peek_get",
                       ShipmentLoc(selectedID, table[selectedID].Version,
                                   table[selectedID]))
    /\ UNCHANGED <<table, now, useFIFO, stale>>

\* Dequeue, in Peek: Get of the selected shipment, on which MarkAsPeeked is
\* called.
DequeuePeekGet(c) ==
    /\ pc[c] = "dequeue_peek_get"
    /\ IF loc[c].id \in DOMAIN table
       THEN Goto(c, "dequeue_peek_update", loc[c])
       ELSE Finish(c, "Dequeue", NilDereference, loc[c].id, NoMsg)
    /\ UNCHANGED <<table, now, useFIFO, stale>>

\* Dequeue, in Peek: the conditional update, version = selectedVersion.
DequeuePeekUpdate(c) ==
    /\ pc[c] = "dequeue_peek_update"
    /\ LET id == loc[c].id
           cond == VersionMatches(table, id, loc[c].version)
           peeked == MarkAsPeeked(loc[c].before, now)
       IN  /\ cond => table[id].Version < MaxVersion
           /\ table' = updateDynamoDBItem(table, id, cond,
                                          Attrs(peeked, ShipmentPeekSets))
           /\ IF cond
              THEN Goto(c, "dequeue_peek_return", loc[c])
              ELSE Finish(c, "Dequeue", ConditionalCheckFailedError, id, NoMsg)
    /\ UNCHANGED <<now, useFIFO, stale>>

\* Dequeue, in Peek: the Get of the peeked shipment; Peek returns.
DequeuePeekReturn(c) ==
    /\ pc[c] = "dequeue_peek_return"
    /\ Goto(c, "dequeue_remove_get", loc[c])
    /\ UNCHANGED <<table, now, useFIFO, stale>>

\* Dequeue, in Remove: Get of the peeked id. An error of Remove is returned
\* as it is; a shipment already removed is a success without a write.
DequeueRemoveGet(c) ==
    /\ pc[c] = "dequeue_remove_get"
    /\ IF loc[c].id \notin DOMAIN table
       THEN Finish(c, "Dequeue", IDNotFoundError, loc[c].id, NoMsg)
       ELSE IF IsRemoved(table[loc[c].id])
       THEN Goto(c, "dequeue_get", loc[c])
       ELSE Goto(c, "dequeue_remove_update",
                 [loc[c] EXCEPT !.version = table[loc[c].id].Version])
    /\ UNCHANGED <<table, now, useFIFO, stale>>

\* Dequeue, in Remove: the conditional update, version = the version read.
DequeueRemoveUpdate(c) ==
    /\ pc[c] = "dequeue_remove_update"
    /\ LET id == loc[c].id
           cond == VersionMatches(table, id, loc[c].version)
           removed == MarkAsRemoved(loc[c].before, now)
       IN  /\ cond => table[id].Version < MaxVersion
           /\ table' = updateDynamoDBItem(table, id, cond, Attrs(removed, RemoveSets))
           /\ IF cond
              THEN Goto(c, "dequeue_get", loc[c])
              ELSE Finish(c, "Dequeue", ConditionalCheckFailedError, id, NoMsg)
    /\ UNCHANGED <<now, useFIFO, stale>>

\* Dequeue: the Get whose shipment the DequeueResult carries.
DequeueReturn(c) ==
    /\ pc[c] = "dequeue_get"
    /\ Finish(c, "Dequeue", "", loc[c].id, GetItem(table, loc[c].id))
    /\ UNCHANGED <<table, now, useFIFO, stale>>

\* One shipment client calling Enqueue, Remove and Dequeue one after the other.
NextShipment ==
    \/ Tick
    \/ \E id \in Ids : PutRequest(id)
    \/ \E c \in SerialClients :
         \/ \E id \in InputIds : EnqueueGet(c, id)
         \/ EnqueueUpdate(c)
         \/ EnqueueReturn(c)
         \/ \E id \in InputIds : RemoveGet(c, id)
         \/ RemoveUpdate(c)
         \/ DequeueQuery(c)
         \/ DequeuePeekGet(c)
         \/ DequeuePeekUpdate(c)
         \/ DequeuePeekReturn(c)
         \/ DequeueRemoveGet(c)
         \/ DequeueRemoveUpdate(c)
         \/ DequeueReturn(c)

SpecShipment == Init /\ [][NextShipment]_vars

\* Two shipment clients whose Dequeue and Remove calls interleave on one id.
NextShipmentRace ==
    \/ Tick
    \/ \E id \in RaceIds : PutRequest(id)
    \/ \E c \in Clients :
         \/ \E id \in RaceIds : RemoveGet(c, id)
         \/ RemoveUpdate(c)
         \/ DequeueQuery(c)
         \/ DequeuePeekGet(c)
         \/ DequeuePeekUpdate(c)
         \/ DequeuePeekReturn(c)
         \/ DequeueRemoveGet(c)
         \/ DequeueRemoveUpdate(c)
         \/ DequeueReturn(c)

SpecShipmentRace == Init /\ [][NextShipmentRace]_vars

\* ---------------------------------------------- claims on the shipment client

\* Client c calls Enqueue(id): the step of validation, Get and status tests.
CallsEnqueue(c, id) ==
    Calls(c, "Enqueue", "enqueue_update", id)

\* C37: Enqueue(id) succeeds only from READY_TO_SHIP. Called for an id that is
\* not in the table it returns IDNotFoundError, for a shipment under
\* construction RecordNotConstructedError, for one of any other status but
\* READY_TO_SHIP IllegalStateError, and the table is as it was; only a
\* READY_TO_SHIP shipment goes on to the update, after which it is in the
\* queue, not selected, and its Version is one greater; that shipment is
\* what a successful Enqueue returns.
C37_EnqueueOnlyFromReadyToShip ==
    [][\A c \in SerialClients :
          /\ \A id \in Ids :
                CallsEnqueue(c, id) =>
                   /\ id \notin DOMAIN table =>
                         out'.err = IDNotFoundError /\ table' = table
                   /\ (id \in DOMAIN table
                         /\ table[id].Status = StatusUnderConstruction) =>
                         out'.err = RecordNotConstructedError /\ table' = table
                   /\ (id \in DOMAIN table
                         /\ table[id].Status \notin
                               {StatusUnderConstruction, StatusReadyToShip}) =>
                         out'.err = IllegalStateError /\ table' = table
                   /\ pc'[c] = "enqueue_update" =>
                         table[id].Status = StatusReadyToShip /\ table' = table
          /\ (pc[c] = "enqueue_update" /\ pc'[c] # pc[c]) =>
                /\ pc'[c] = "enqueue_return"
                /\ table'[loc[c].id].InQueue = 1
                /\ ~table'[loc[c].id].SelectedFromQueue
                /\ table'[loc[c].id].Version = table[loc[c].id].Version + 1
                /\ table[loc[c].id] = loc[c].before
          /\ (pc[c] = "enqueue_return" /\ pc'[c] = Idle) =>
                /\ out'.err = ""
                /\ loc[c].before.Status = StatusReadyToShip
                /\ out'.msg = table[loc[c].id]
                /\ out'.msg.InQueue = 1
                /\ ~out'.msg.SelectedFromQueue
                /\ out'.msg.Version = loc[c].before.Version + 1]_vars

\* An Enqueue has returned a shipment that was READY_TO_SHIP outside the queue
\* and is now queued at Version 2.
C37_Witness ==
    /\ out.op = "Enqueue"
    /\ out.err = ""
    /\ out.msg.InQueue = 1
    /\ out.msg.Version = 2
    /\ out.msg.AddToQueueTimestamp = out.msg.LastUpdatedTimestamp

\* An Enqueue of a peeked shipment has been refused with IllegalStateError.
C37_WitnessIllegalState ==
    /\ out.op = "Enqueue"
    /\ out.err = IllegalStateError
    /\ out.id \in DOMAIN table
    /\ table[out.id].SelectedFromQueue

\* The queued shipments a Peek at time t may take: not selected, or selected
\* with the visibility timeout run out.
Peekable(tbl, t) ==
    {i \in DOMAIN tbl :
        /\ tbl[i].InQueue = 1
        /\ ~ShipmentIsQueueSelected(tbl[i], t, DefaultVisibilityTimeout)}

\* C38: a successful Dequeue is a Peek followed by a Remove of the same
\* shipment. Its query takes a queued shipment that is not selected or whose
\* visibility timeout has run out, with no such shipment before it in the
\* index, and returns EmptyQueueError exactly when there is none; when it
\* returns, the shipment is what MarkAsPeeked and then MarkAsRemoved make of
\* the shipment it found, in neither the queue nor the DLQ, with a Version
\* exactly 2 greater.
C38_DequeueIsPeekThenRemove ==
    [][\A c \in SerialClients :
          /\ (pc[c] = Idle /\ out'.client = c /\ out'.op = "Dequeue") =>
                /\ out'.err = EmptyQueueError
                /\ Peekable(table, now) = {}
                /\ table' = table
          /\ (pc[c] = Idle /\ pc'[c] = "dequeue_peek_get") =>
                /\ loc'[c].id \in Peekable(table, now)
                /\ \A i \in Peekable(table, now) :
                      table[i].LastUpdatedTimestamp
                         >= table[loc'[c].id].LastUpdatedTimestamp
          /\ (pc[c] = "dequeue_get" /\ pc'[c] = Idle) =>
                /\ out'.err = ""
                /\ out'.msg = table[loc[c].id]
                /\ out'.msg.InQueue = 0
                /\ out'.msg.DLQ = 0
                /\ out'.msg.Version = loc[c].before.Version + 2
                /\ \E tp, tr \in 0..(MaxTime + 1) :
                      out'.msg = [MarkAsRemoved(MarkAsPeeked(loc[c].before, tp), tr)
                                     EXCEPT !.Version = loc[c].before.Version + 2]]_vars

\* A Dequeue has returned a shipment, removed after time 0 at Version 3, while
\* another shipment stays in the queue.
C38_Witness ==
    /\ out.op = "Dequeue"
    /\ out.err = ""
    /\ out.msg.Version = 3
    /\ out.msg.InQueue = 0
    /\ out.msg.RemoveFromQueueTimestamp > 0
    /\ \E id \in DOMAIN table : id # out.id /\ table[id].InQueue = 1

\* A Dequeue has found only a selected shipment and returned EmptyQueueError.
C38_WitnessEmpty ==
    /\ out.op = "Dequeue"
    /\ out.err = EmptyQueueError
    /\ \E id \in DOMAIN table : table[id].InQueue = 1

\* Dequeue of client c returns an error from its Remove step, after its Peek
\* step has marked the shipment.
DequeueFailsInRemove(c) ==
    /\ pc[c] \in {"dequeue_remove_get", "dequeue_remove_update"}
    /\ pc'[c] = Idle
    /\ out'.err # ""

\* C39: Dequeue is all-or-nothing: when it returns an error from its Remove
\* step, a version conflict caused by another client included, the shipment
\* it selected is stored as it was before the call, not with the Version and
\* the status its Peek step gave it.
C39_DequeueAllOrNothing ==
    [][\A c \in Clients :
          DequeueFailsInRemove(c) =>
              /\ loc[c].id \in DOMAIN table'
              /\ table'[loc[c].id] = loc[c].before]_vars

====
